---------------------------- MODULE Spec2Model ----------------------------
(***************************************************************************)
(* RouteMaster: the route optimizer (nearest neighbour + 2-opt over a      *)
(* synthetic distance/time matrix with a time-of-day traffic factor).      *)
(*                                                                         *)
(* Numbers.  JavaScript numbers are modelled by integers in fixed units:   *)
(*   - a latitude or longitude is a multiple of 60 degrees (lat 1 = 60 N), *)
(*     so that every sin^2 and cos of the haversine formula is rational;   *)
(*   - a distance is a whole number of miles;                              *)
(*   - a time is in tenths of a minute;                                    *)
(*   - a traffic factor is in tenths (15 = 1.5);                           *)
(*   - a blended score is in hundredths (0.3*d + 0.7*t = (30*d + 7*t10)/100).*)
(* NaN is a value of its own: arithmetic on it gives NaN and every         *)
(* comparison with it is false, as in IEEE 754.                            *)
(*                                                                         *)
(* The dashboard.  handleSubmit of the Dashboard component filters the     *)
(* stops of the form, calls optimizeRoute and sends the ordered            *)
(* coordinates to the directions provider.  An address is a sequence of    *)
(* characters.  Markers and the drawn line belong to the map library and   *)
(* are not part of the state.                                              *)
(***************************************************************************)
EXTENDS Integers, Sequences, FiniteSets, Bags, TLC

VARIABLES
    startLocation,   \* argument: the start Location
    stops,           \* argument: the Location[] of stops
    endLocation,     \* argument: << >> when undefined, <<loc>> otherwise
    hour,            \* what new Date().getHours() returns when the call starts
    pc,              \* position in optimizeRoute
    distanceMatrix,  \* n x n, miles
    timeMatrix,      \* n x n, tenths of a minute
    route,           \* the local `route` of findNearestNeighborRoute / improve2Opt
    unvisited,       \* the Set of findNearestNeighborRoute, in insertion order
    improved,        \* improve2Opt
    bestScore,       \* improve2Opt
    i,               \* improve2Opt: outer loop position
    j,               \* improve2Opt: inner loop position
    bestRoute,       \* optimizeRoute: let bestRoute
    result,          \* the returned OptimizedRoute, << >> before the return
    dashboard,       \* React state of Dashboard: stops, startLocation,
                     \* endLocation, isLoading, routeSummary, inputValues,
                     \* suggestions, activeSuggestionIndex,
                     \* activeSuggestionInput
    mapCurrent,      \* map.current is a map (TRUE) or null (FALSE)
    submitPc,        \* position in handleSubmit
    alerts,          \* the messages shown by alert(), in order
    request,         \* the coordinates sent to the directions provider and
                     \* not yet answered, << >> when none
    pending,         \* the async handlers waiting at an await, a bag
    timers,          \* the timeouts set and neither fired nor cleared
    searchTimeoutRef \* searchTimeoutRef.current: << >> when undefined,
                     \* <<id>> otherwise

asyncVars == <<pending, timers, searchTimeoutRef>>

dashboardVars == <<dashboard, mapCurrent, submitPc, alerts, request,
                   pending, timers, searchTimeoutRef>>

vars == <<startLocation, stops, endLocation, hour, pc, distanceMatrix,
          timeMatrix, route, unvisited, improved, bestScore, i, j,
          bestRoute, result, dashboard, mapCurrent, submitPc, alerts,
          request, pending, timers, searchTimeoutRef>>

---------------------------------------------------------------------------
(* Bounds of the model *)

MaxStops == 3

---------------------------------------------------------------------------
(* Numbers *)

NaN == -1000000

Infinity == 1000000000

FAdd(a, b) == IF a = NaN \/ b = NaN THEN NaN ELSE a + b

FSub(a, b) == IF a = NaN \/ b = NaN THEN NaN ELSE a - b

\* a < b on numbers: false as soon as one side is NaN
FLt(a, b) == a # NaN /\ b # NaN /\ a < b

\* a <= b on numbers: false as soon as one side is NaN
FLe(a, b) == a # NaN /\ b # NaN /\ a <= b

---------------------------------------------------------------------------
(* Locations *)

Loc(lat, lng) == [lat |-> lat, lng |-> lng]

\* The places the arguments are drawn from: three points 60 degrees apart
\* and one whose latitude is not a number.
Places == {Loc(0, 0), Loc(0, 1), Loc(1, 0), Loc(NaN, 0)}

\* The hours at which a call starts: 6 -> 7 enters the rush hour,
\* 10 -> 11 leaves it.
StartHours == {6, 10}

RECURSIVE SeqsUpTo(_, _)
SeqsUpTo(S, k) ==
    IF k = 0 THEN {<< >>}
    ELSE LET shorter == SeqsUpTo(S, k - 1)
         IN  shorter \cup {Append(s, x) : s \in {t \in shorter : Len(t) = k - 1}, x \in S}

---------------------------------------------------------------------------
(* calculateDistance: the haversine formula *)

\* 4 * sin^2(d * 60deg / 2)
Sin2Half(d) == <<0, 1, 3, 4, 3, 1>>[(d % 6) + 1]

\* 2 * cos(lat * 60deg)
Cos2(lat) == <<2, 1, -1, -2, -1, 1>>[(lat % 6) + 1]

\* round(3959 * 2 * atan2(sqrt(a), sqrt(1 - a))) for a = a16 / 16
ArcMiles(a16) ==
    <<0, 2001, 2861, 3546, 4146, 4697, 5218, 5723, 6219, 6715, 7219, 7741,
      8292, 8892, 9576, 10437, 12438>>[a16 + 1]

\* Mutant: the cosine of point1's latitude is taken twice; a > 1 makes
\* Math.sqrt(1 - a) NaN.
calculateDistanceOneCos(point1, point2) ==
    LET dLat == FSub(point2.lat, point1.lat)
        dLon == FSub(point2.lng, point1.lng)
        a16  == 4 * Sin2Half(dLat)
                + Cos2(point1.lat) * Cos2(point1.lat) * Sin2Half(dLon)
    IN  IF dLat = NaN \/ dLon = NaN \/ a16 > 16
        THEN NaN
        ELSE ArcMiles(a16)

calculateDistance(point1, point2) ==
    LET dLat == FSub(point2.lat, point1.lat)
        dLon == FSub(point2.lng, point1.lng)
    IN  IF dLat = NaN \/ dLon = NaN
        THEN NaN
        ELSE ArcMiles(4 * Sin2Half(dLat)
                      + Cos2(point1.lat) * Cos2(point2.lat) * Sin2Half(dLon))

---------------------------------------------------------------------------
(* The cost model *)

\* Mutant: the morning rush hour ends one hour early (hour < 10).
trafficFactorEarlyEnd(h) ==
    IF (h >= 7 /\ h < 10) \/ (h >= 16 /\ h <= 19) THEN 15
    ELSE IF h >= 22 \/ h <= 5 THEN 8
    ELSE 10

\* trafficFactor of an hour, in tenths
trafficFactor(h) ==
    IF (h >= 7 /\ h <= 10) \/ (h >= 16 /\ h <= 19) THEN 15
    ELSE IF h >= 22 \/ h <= 5 THEN 8
    ELSE 10

\* Mutant: hours instead of minutes, the factor 60 is missing.
timeCellHours(distance, h) ==
    IF distance = NaN THEN NaN ELSE (distance * trafficFactor(h)) \div 30

\* (distance / 30) * 60 * trafficFactor, in tenths of a minute
timeCell(distance, h) ==
    IF distance = NaN THEN NaN ELSE (distance * 60 * trafficFactor(h)) \div 30

\* Mutant: without an end location the tour ends at the last stop.
allPointsOneWay ==
    IF endLocation # << >>
    THEN <<startLocation>> \o stops \o endLocation
    ELSE <<startLocation>> \o stops
           \o (IF stops = << >> THEN <<startLocation>> ELSE <<stops[Len(stops)]>>)

allPoints ==
    IF endLocation # << >>
    THEN <<startLocation>> \o stops \o endLocation
    ELSE <<startLocation>> \o stops \o <<startLocation>>

n == Len(allPoints)

Point(k) == allPoints[k + 1]

\* The hour read for cell number c of the double loop when the wall clock
\* passes the full hour just before cell `rollover` is computed.
HourAt(c, rollover) == IF c < rollover THEN hour ELSE (hour + 1) % 24

---------------------------------------------------------------------------
(* Tours: 0-based positions on 1-based sequences *)

At(r, k) == r[k + 1]

\* distanceScore * 0.3 + timeScore * 0.7, in hundredths
Blend(distance, time) ==
    IF distance = NaN \/ time = NaN THEN NaN ELSE 30 * distance + 7 * time

combinedScore(current, next) ==
    Blend(distanceMatrix[current][next], timeMatrix[current][next])

\* Mutant: the comparison is not strict, a later equal score replaces the
\* earlier candidate.
RECURSIVE ScanUnvisitedLastWins(_, _, _, _)
ScanUnvisitedLastWins(current, k, nearest, minScore) ==
    IF k > Len(unvisited) THEN nearest
    ELSE LET next == unvisited[k]
             score == combinedScore(current, next)
         IN  IF FLe(score, minScore)
             THEN ScanUnvisitedLastWins(current, k + 1, next, score)
             ELSE ScanUnvisitedLastWins(current, k + 1, nearest, minScore)

\* The for-of loop of findNearestNeighborRoute from element k of the set on,
\* with the running nearest and minScore.
RECURSIVE ScanUnvisited(_, _, _, _)
ScanUnvisited(current, k, nearest, minScore) ==
    IF k > Len(unvisited) THEN nearest
    ELSE LET next == unvisited[k]
             score == combinedScore(current, next)
         IN  IF FLt(score, minScore)
             THEN ScanUnvisited(current, k + 1, next, score)
             ELSE ScanUnvisited(current, k + 1, nearest, minScore)

SetDelete(s, x) == SelectSeq(s, LAMBDA y : y # x)

\* Mutant: the swap assigns only one side, newRoute[i] = newRoute[j].
RECURSIVE twoOptSwapOneSided(_, _, _)
twoOptSwapOneSided(r, a, b) ==
    IF a < b
    THEN twoOptSwapOneSided([r EXCEPT ![a + 1] = r[b + 1]], a + 1, b - 1)
    ELSE r

\* Mutant: the two ends are stepped before the first exchange, positions i
\* and j stay where they are.
RECURSIVE twoOptSwapInner(_, _, _)
twoOptSwapInner(r, a, b) ==
    IF a + 1 < b - 1
    THEN twoOptSwapInner([r EXCEPT ![a + 2] = r[b], ![b] = r[a + 2]], a + 1, b - 1)
    ELSE r

RECURSIVE twoOptSwap(_, _, _)
twoOptSwap(r, a, b) ==
    IF a < b
    THEN twoOptSwap([r EXCEPT ![a + 1] = r[b + 1], ![b + 1] = r[a + 1]], a + 1, b - 1)
    ELSE r

\* The for loop of calculateRouteScore from i = k on, for one of the two
\* matrices, with the running sum.
RECURSIVE SumEdges(_, _, _, _)
SumEdges(m, r, k, acc) ==
    IF k < Len(r) - 1
    THEN SumEdges(m, r, k + 1, FAdd(acc, m[At(r, k)][At(r, k + 1)]))
    ELSE acc

\* Mutant: the edge into the end point is left out of the score.
calculateRouteScoreOpen(r) ==
    Blend(SumEdges(distanceMatrix, SubSeq(r, 1, Len(r) - 1), 0, 0),
          SumEdges(timeMatrix, SubSeq(r, 1, Len(r) - 1), 0, 0))

calculateRouteScore(r) ==
    Blend(SumEdges(distanceMatrix, r, 0, 0), SumEdges(timeMatrix, r, 0, 0))

\* Mutant: the comparison is reversed, newScore > bestScore.
ImprovesReversed(newScore, best) == FLt(best, newScore)

\* Mutant: the comparison is not strict, newScore <= bestScore.
ImprovesOrEqual(newScore, best) == FLe(newScore, best)

\* newScore < bestScore
Improves(newScore, best) == FLt(newScore, best)

\* Mutant: the outer loop stops one position early, i < route.length - 3.
OuterLoopTestShort(a, r) == a < Len(r) - 3

\* i < route.length - 2
OuterLoopTest(a, r) == a < Len(r) - 2

\* Mutant: the inner loop stops one position early, j < route.length - 2.
InnerLoopTestShort(b, r) == b < Len(r) - 2

\* Mutant: the inner loop runs one position too far, j < route.length.
InnerLoopTestLong(b, r) == b < Len(r)

\* j < route.length - 1
InnerLoopTest(b, r) == b < Len(r) - 1

\* The two for loops from i = a on: the first i whose inner loop has a pair
\* (i, i + 1) to try, 0 when the outer loop ends first.
RECURSIVE NextOuter(_, _)
NextOuter(a, r) ==
    IF ~OuterLoopTest(a, r) THEN 0
    ELSE IF InnerLoopTest(a + 1, r) THEN a
    ELSE NextOuter(a + 1, r)

\* bestRoute.reduce(...) from element k on, with the running total
RECURSIVE ReduceDistance(_, _, _)
ReduceDistance(r, k, total) ==
    IF k >= Len(r) THEN total
    ELSE ReduceDistance(r, k + 1,
            IF k = 0 THEN 0 ELSE FAdd(total, distanceMatrix[At(r, k - 1)][At(r, k)]))

\* Mutant: the blended score is reported as the distance.
finalDistanceBlended(r) == calculateRouteScore(r)

finalDistance(r) == ReduceDistance(r, 0, 0)

---------------------------------------------------------------------------
(* The dashboard's state *)

\* A stop or location of the form
Stop(address, lat, lng) == [address |-> address, lat |-> lat, lng |-> lng]

\* The characters String.prototype.trim removes
Whitespace == {" "}

\* address.trim()
RECURSIVE Trim(_)
Trim(address) ==
    IF address = << >> THEN << >>
    ELSE IF Head(address) \in Whitespace THEN Trim(Tail(address))
    ELSE IF address[Len(address)] \in Whitespace
         THEN Trim(SubSeq(address, 1, Len(address) - 1))
    ELSE address

\* Mutant: a stop is kept when any one of the three tests passes.
IsValidStopAny(stop) ==
    stop.lat # 0 \/ stop.lng # 0 \/ Trim(stop.address) # << >>

\* The filter predicate of handleSubmit
IsValidStop(stop) ==
    stop.lat # 0 /\ stop.lng # 0 /\ Trim(stop.address) # << >>

\* stops.filter(...)
RECURSIVE Filter(_)
Filter(s) ==
    IF s = << >> THEN << >>
    ELSE IF IsValidStop(Head(s)) THEN <<Head(s)>> \o Filter(Tail(s))
    ELSE Filter(Tail(s))

\* useState: the start location a new dashboard shows (37.7749, -122.4194,
\* on the grid of the model 60 N, 120 W)
InitialStartLocation == Stop(<< >>, 1, -2)

\* useState: the one empty stop of a new form
EmptyStop == Stop(<< >>, 0, 0)

\* No handler waits at an await and no timeout is set
NoAsync ==
    /\ pending = EmptyBag
    /\ timers = {}
    /\ searchTimeoutRef = << >>

\* The dashboard when optimizeRoute is called on its own
NoDashboard ==
    /\ dashboard = [stops |-> <<EmptyStop>>,
                    startLocation |-> InitialStartLocation,
                    endLocation |-> << >>,
                    isLoading |-> FALSE,
                    routeSummary |-> << >>,
                    inputValues |-> [stops |-> << << >> >>],
                    suggestions |-> << >>,
                    activeSuggestionIndex |-> -1,
                    activeSuggestionInput |-> << >>]
    /\ mapCurrent = FALSE
    /\ submitPc = "idle"
    /\ alerts = << >>
    /\ request = << >>
    /\ NoAsync

---------------------------------------------------------------------------
(* optimizeRoute *)

Init ==
    /\ startLocation \in Places
    /\ stops \in SeqsUpTo(Places, MaxStops)
    /\ endLocation \in {<< >>} \cup {<<p>> : p \in Places}
    /\ hour \in StartHours
    /\ pc = "fill"
    /\ distanceMatrix = << >>
    /\ timeMatrix = << >>
    /\ route = << >>
    /\ unvisited = << >>
    /\ improved = FALSE
    /\ bestScore = 0
    /\ i = 0
    /\ j = 0
    /\ bestRoute = << >>
    /\ result = << >>
    /\ NoDashboard

\* Mutant: the end point is pushed on the caller's stops array instead of on
\* a copy.
FillMatricesInPlace ==
    /\ pc = "fill"
    /\ stops' = Append(stops, Point(n - 1))
    /\ \E rollover \in 0 .. n * n :
        /\ distanceMatrix' =
             [a \in 0 .. n - 1 |-> [b \in 0 .. n - 1 |->
                IF a # b THEN calculateDistance(Point(a), Point(b)) ELSE 0]]
        /\ timeMatrix' =
             [a \in 0 .. n - 1 |-> [b \in 0 .. n - 1 |->
                IF a # b
                THEN timeCell(calculateDistance(Point(a), Point(b)),
                              HourAt(a * n + b, rollover))
                ELSE 0]]
    /\ route' = <<0>>
    /\ unvisited' = [k \in 1 .. n - 2 |-> k]
    /\ pc' = "nn"
    /\ UNCHANGED dashboardVars
    /\ UNCHANGED <<startLocation, endLocation, hour, improved,
                   bestScore, i, j, bestRoute, result>>

\* Lines 60-98: allPoints and the two matrices.  The hour is read anew for
\* every cell, so the clock may pass a full hour between two cells.
FillMatrices ==
    /\ pc = "fill"
    /\ \E rollover \in 0 .. n * n :
        /\ distanceMatrix' =
             [a \in 0 .. n - 1 |-> [b \in 0 .. n - 1 |->
                IF a # b THEN calculateDistance(Point(a), Point(b)) ELSE 0]]
        /\ timeMatrix' =
             [a \in 0 .. n - 1 |-> [b \in 0 .. n - 1 |->
                IF a # b
                THEN timeCell(calculateDistance(Point(a), Point(b)),
                              HourAt(a * n + b, rollover))
                ELSE 0]]
    /\ route' = <<0>>
    /\ unvisited' = [k \in 1 .. n - 2 |-> k]
    /\ pc' = "nn"
    /\ UNCHANGED dashboardVars
    /\ UNCHANGED <<startLocation, stops, endLocation, hour, improved,
                   bestScore, i, j, bestRoute, result>>

\* Lines 105-124: one iteration of the while loop.  distanceMatrix[current]
\* is undefined when current is not an index, and reading [next] of it
\* throws a TypeError.
NearestNeighborStep ==
    /\ pc = "nn"
    /\ Len(unvisited) > 0
    /\ LET current == At(route, Len(route) - 1)
       IN  IF current \notin 0 .. n - 1
           THEN /\ pc' = "threw"
                /\ UNCHANGED <<route, unvisited>>
           ELSE LET nearest == ScanUnvisited(current, 1, -1, Infinity)
                IN  /\ route' = Append(route, nearest)
                    /\ unvisited' = SetDelete(unvisited, nearest)
                    /\ pc' = "nn"
    /\ UNCHANGED dashboardVars
    /\ UNCHANGED <<startLocation, stops, endLocation, hour, distanceMatrix,
                   timeMatrix, improved, bestScore, i, j, bestRoute, result>>

\* Lines 126-127 and 165: push the end point, return, let bestRoute.
NearestNeighborReturn ==
    /\ pc = "nn"
    /\ Len(unvisited) = 0
    /\ route' = Append(route, n - 1)
    /\ bestRoute' = route'
    /\ pc' = "improve"
    /\ UNCHANGED dashboardVars
    /\ UNCHANGED <<startLocation, stops, endLocation, hour, distanceMatrix,
                   timeMatrix, unvisited, improved, bestScore, i, j, result>>

\* Lines 131-133: improve2Opt(bestRoute) is entered.
Improve2OptEnter ==
    /\ pc = "improve"
    /\ improved' = TRUE
    /\ bestScore' = calculateRouteScore(route)
    /\ pc' = "while"
    /\ UNCHANGED dashboardVars
    /\ UNCHANGED <<startLocation, stops, endLocation, hour, distanceMatrix,
                   timeMatrix, route, unvisited, i, j, bestRoute, result>>

\* Lines 135-138 and 150, 168: the test of the while loop.  A pass starts at
\* the pair (1, 2) when the tour has one; the loop is left with the return.
WhileTest ==
    /\ pc = "while"
    /\ IF improved
       THEN /\ improved' = FALSE
            /\ LET a == NextOuter(1, route)
               IN  IF a # 0
                   THEN i' = a /\ j' = a + 1 /\ pc' = "pair"
                   ELSE i' = 0 /\ j' = 0 /\ pc' = "while"
            /\ UNCHANGED bestRoute
       ELSE /\ bestRoute' = route
            /\ pc' = "final"
            /\ UNCHANGED <<improved, i, j>>
    /\ UNCHANGED dashboardVars
    /\ UNCHANGED <<startLocation, stops, endLocation, hour, distanceMatrix,
                   timeMatrix, route, unvisited, bestScore, result>>

\* Mutant: the best score is not updated on acceptance, later candidates
\* are compared with the score the tour had when improve2Opt was entered.
TryPairStaleScore ==
    /\ pc = "pair"
    /\ LET newRoute == twoOptSwap(route, i, j)
           newScore == calculateRouteScore(newRoute)
       IN  IF Improves(newScore, bestScore)
           THEN /\ route' = newRoute
                /\ improved' = TRUE
                /\ UNCHANGED bestScore
           ELSE UNCHANGED <<route, bestScore, improved>>
    /\ IF InnerLoopTest(j + 1, route)
       THEN i' = i /\ j' = j + 1 /\ pc' = "pair"
       ELSE LET a == NextOuter(i + 1, route)
            IN  IF a # 0
                THEN i' = a /\ j' = a + 1 /\ pc' = "pair"
                ELSE i' = 0 /\ j' = 0 /\ pc' = "while"
    /\ UNCHANGED dashboardVars
    /\ UNCHANGED <<startLocation, stops, endLocation, hour, distanceMatrix,
                   timeMatrix, unvisited, bestRoute, result>>

\* Lines 137-148: the body of the inner loop for the pair (i, j), and the
\* step of the two for loops to the next pair.
TryPair ==
    /\ pc = "pair"
    /\ LET newRoute == twoOptSwap(route, i, j)
           newScore == calculateRouteScore(newRoute)
       IN  IF Improves(newScore, bestScore)
           THEN /\ route' = newRoute
                /\ bestScore' = newScore
                /\ improved' = TRUE
           ELSE UNCHANGED <<route, bestScore, improved>>
    /\ IF InnerLoopTest(j + 1, route)
       THEN i' = i /\ j' = j + 1 /\ pc' = "pair"
       ELSE LET a == NextOuter(i + 1, route)
            IN  IF a # 0
                THEN i' = a /\ j' = a + 1 /\ pc' = "pair"
                ELSE i' = 0 /\ j' = 0 /\ pc' = "while"
    /\ UNCHANGED dashboardVars
    /\ UNCHANGED <<startLocation, stops, endLocation, hour, distanceMatrix,
                   timeMatrix, unvisited, bestRoute, result>>

\* Mutant: the coordinate pairs are built latitude first.
ReturnLatFirst ==
    /\ pc = "final"
    /\ result' = [coordinates |-> [k \in 1 .. Len(bestRoute) |->
                                     <<Point(bestRoute[k]).lat, Point(bestRoute[k]).lng>>],
                  order |-> bestRoute,
                  distance |-> finalDistance(bestRoute),
                  duration |-> 0]
    /\ pc' = "done"
    /\ UNCHANGED dashboardVars
    /\ UNCHANGED <<startLocation, stops, endLocation, hour, distanceMatrix,
                   timeMatrix, route, unvisited, improved, bestScore, i, j,
                   bestRoute>>

\* Lines 170-181: the final distance and the returned object.
Return ==
    /\ pc = "final"
    /\ result' = [coordinates |-> [k \in 1 .. Len(bestRoute) |->
                                     <<Point(bestRoute[k]).lng, Point(bestRoute[k]).lat>>],
                  order |-> bestRoute,
                  distance |-> finalDistance(bestRoute),
                  duration |-> 0]
    /\ pc' = "done"
    /\ UNCHANGED dashboardVars
    /\ UNCHANGED <<startLocation, stops, endLocation, hour, distanceMatrix,
                   timeMatrix, route, unvisited, improved, bestScore, i, j,
                   bestRoute>>

Next ==
    \/ FillMatrices
    \/ NearestNeighborStep
    \/ NearestNeighborReturn
    \/ Improve2OptEnter
    \/ WhileTest
    \/ TryPair
    \/ Return

Spec == Init /\ [][Next]_vars

\* The calls that start at 6, scheduled fairly: a step that can be taken is
\* taken (the call is synchronous and nothing else runs).
FairInit == Init /\ hour = 6

FairSpec == FairInit /\ [][Next]_vars /\ WF_vars(Next)

---------------------------------------------------------------------------
(* The traffic factor over the whole day: one call per hour of the day on a *)
(* fixed two-stop round trip.                                               *)

TrafficInit ==
    /\ startLocation = Loc(0, 0)
    /\ stops \in {<<Loc(0, 1), Loc(1, 0)>>, <<Loc(1, 0), Loc(0, 1)>>}
    /\ endLocation \in {<< >>, <<Loc(0, 1)>>}
    /\ hour \in 0 .. 23
    /\ pc = "fill"
    /\ distanceMatrix = << >>
    /\ timeMatrix = << >>
    /\ route = << >>
    /\ unvisited = << >>
    /\ improved = FALSE
    /\ bestScore = 0
    /\ i = 0
    /\ j = 0
    /\ bestRoute = << >>
    /\ result = << >>
    /\ NoDashboard

TrafficSpec == TrafficInit /\ [][Next]_vars

\* Calls on a start, three stops and an end that lie far apart, in every
\* order of the stops
DetourStops == {Loc(-1, 1), Loc(0, -1), Loc(0, 3)}

DetourInit ==
    /\ startLocation = Loc(0, 0)
    /\ stops \in {s \in SeqsUpTo(DetourStops, MaxStops) : Len(s) = MaxStops}
    /\ endLocation \in {<< >>, <<Loc(1, 0)>>}
    /\ hour \in StartHours \cup {12}
    /\ pc = "fill"
    /\ distanceMatrix = << >>
    /\ timeMatrix = << >>
    /\ route = << >>
    /\ unvisited = << >>
    /\ improved = FALSE
    /\ bestScore = 0
    /\ i = 0
    /\ j = 0
    /\ bestRoute = << >>
    /\ result = << >>
    /\ NoDashboard

DetourSpec == DetourInit /\ [][Next]_vars

\* Calls on a start and a first stop from every latitude and longitude of
\* the grid, NaN included
Grid ==
    {Loc(lat, lng) : lat \in {-1, 0, 1, NaN}, lng \in (-3 .. 3) \cup {NaN}}

DistanceInit ==
    /\ startLocation \in Grid
    /\ \E p \in Grid : stops = <<p, Loc(0, 0)>>
    /\ endLocation = << >>
    /\ hour = 12
    /\ pc = "fill"
    /\ distanceMatrix = << >>
    /\ timeMatrix = << >>
    /\ route = << >>
    /\ unvisited = << >>
    /\ improved = FALSE
    /\ bestScore = 0
    /\ i = 0
    /\ j = 0
    /\ bestRoute = << >>
    /\ result = << >>
    /\ NoDashboard

DistanceSpec == DistanceInit /\ [][Next]_vars

\* Round trips over three stops on which the order of acceptance matters,
\* in every order of the stops
ScanStops == {Loc(0, 1), Loc(-1, -1), Loc(1, -3)}

ScanInit ==
    /\ startLocation = Loc(0, 0)
    /\ stops \in {s \in SeqsUpTo(ScanStops, MaxStops) : Len(s) = MaxStops}
    /\ endLocation = << >>
    /\ hour \in StartHours \cup {12}
    /\ pc = "fill"
    /\ distanceMatrix = << >>
    /\ timeMatrix = << >>
    /\ route = << >>
    /\ unvisited = << >>
    /\ improved = FALSE
    /\ bestScore = 0
    /\ i = 0
    /\ j = 0
    /\ bestRoute = << >>
    /\ result = << >>
    /\ NoDashboard

ScanSpec == ScanInit /\ [][Next]_vars

---------------------------------------------------------------------------
(* handleSubmit *)

\* At most this many alerts are shown in one run of the model.
MaxAlerts == 2

\* What the geocoder or the browser's position can put in a stop of the
\* form: a latitude of 0, a longitude of 0, a blank address, two stops
\* that pass the filter, and one whose coordinates are not numbers (a
\* suggestion without a center)
FormStops ==
    {EmptyStop,
     Stop(<<"a">>, 0, 1),
     Stop(<<"b">>, 1, 0),
     Stop(<<" ">>, 1, 1),
     Stop(<<"c">>, 1, 1),
     Stop(<<" ", "d">>, -1, 2),
     Stop(<<"n">>, NaN, NaN)}

\* The hour of a submit
SubmitHours == {12}

\* What the directions provider can answer: a route (metres, seconds), an
\* empty list of routes, a body without routes
Responses ==
    {[routes |-> <<[distance |-> 1609, duration |-> 600]>>],
     [routes |-> << >>],
     [message |-> "Not Found"]}

\* route.distance * 0.000621371, in units of 10^-9 mile
MetersToMiles(meters) == meters * 621371

\* optimizeRoute is not running: its locals do not exist
OptimizerIdle ==
    /\ startLocation = << >>
    /\ stops = << >>
    /\ endLocation = << >>
    /\ pc = "idle"
    /\ distanceMatrix = << >>
    /\ timeMatrix = << >>
    /\ route = << >>
    /\ unvisited = << >>
    /\ improved = FALSE
    /\ bestScore = 0
    /\ i = 0
    /\ j = 0
    /\ bestRoute = << >>
    /\ result = << >>

SubmitInit ==
    /\ OptimizerIdle
    /\ hour \in SubmitHours
    /\ \E formStops \in SeqsUpTo(FormStops, MaxStops) \ {<< >>},
          start \in {InitialStartLocation, Stop(<<"s">>, 0, 0)},
          end \in {<< >>, <<Stop(<<"e">>, 0, -1)>>} :
            dashboard = [stops |-> formStops,
                         startLocation |-> start,
                         endLocation |-> end,
                         isLoading |-> FALSE,
                         routeSummary |-> << >>,
                         inputValues |->
                            [stops |-> [k \in 1 .. Len(formStops) |->
                                          formStops[k].address]],
                         suggestions |-> << >>,
                         activeSuggestionIndex |-> -1,
                         activeSuggestionInput |-> << >>]
    /\ mapCurrent \in BOOLEAN
    /\ submitPc = "idle"
    /\ alerts = << >>
    /\ request = << >>
    /\ NoAsync

\* finally: setIsLoading(false), the handler is left and the call's locals
\* are gone.
SubmitFinally ==
    /\ submitPc' = "idle"
    /\ startLocation' = << >>
    /\ stops' = << >>
    /\ endLocation' = << >>
    /\ pc' = "idle"
    /\ distanceMatrix' = << >>
    /\ timeMatrix' = << >>
    /\ route' = << >>
    /\ unvisited' = << >>
    /\ improved' = FALSE
    /\ bestScore' = 0
    /\ i' = 0
    /\ j' = 0
    /\ bestRoute' = << >>
    /\ result' = << >>
    /\ request' = << >>

\* The form is submitted (the button is disabled while isLoading):
\* e.preventDefault(); setIsLoading(true).
SubmitEnter ==
    /\ submitPc = "idle"
    /\ ~dashboard.isLoading
    /\ Len(alerts) < MaxAlerts
    /\ dashboard' = [dashboard EXCEPT !.isLoading = TRUE]
    /\ submitPc' = "try"
    /\ UNCHANGED <<startLocation, stops, endLocation, hour, pc,
                   distanceMatrix, timeMatrix, route, unvisited, improved,
                   bestScore, i, j, bestRoute, result, mapCurrent, alerts,
                   request, pending, timers, searchTimeoutRef>>

\* Mutant: the test of map.current returns without the finally block.
SubmitTryEarlyReturn ==
    /\ submitPc = "try"
    /\ LET validStops == Filter(dashboard.stops)
       IN  IF ~mapCurrent
           THEN /\ SubmitFinally
                /\ UNCHANGED <<hour, alerts, dashboard>>
           ELSE IF Len(validStops) = 0
           THEN /\ alerts' = Append(alerts, "Please add at least one valid stop")
                /\ SubmitFinally
                /\ dashboard' = [dashboard EXCEPT !.isLoading = FALSE]
                /\ UNCHANGED hour
           ELSE /\ startLocation' = dashboard.startLocation
                /\ stops' = validStops
                /\ endLocation' = dashboard.endLocation
                /\ hour' \in SubmitHours
                /\ pc' = "fill"
                /\ submitPc' = "optimizing"
                /\ UNCHANGED <<distanceMatrix, timeMatrix, route, unvisited,
                               improved, bestScore, i, j, bestRoute, result,
                               dashboard, alerts, request>>
    /\ UNCHANGED <<mapCurrent, pending, timers, searchTimeoutRef>>

\* The try block up to the call of optimizeRoute.
SubmitTry ==
    /\ submitPc = "try"
    /\ LET validStops == Filter(dashboard.stops)
       IN  IF ~mapCurrent
           THEN /\ SubmitFinally
                /\ dashboard' = [dashboard EXCEPT !.isLoading = FALSE]
                /\ UNCHANGED <<hour, alerts>>
           ELSE IF Len(validStops) = 0
           THEN /\ alerts' = Append(alerts, "Please add at least one valid stop")
                /\ SubmitFinally
                /\ dashboard' = [dashboard EXCEPT !.isLoading = FALSE]
                /\ UNCHANGED hour
           ELSE /\ startLocation' = dashboard.startLocation
                /\ stops' = validStops
                /\ endLocation' = dashboard.endLocation
                /\ hour' \in SubmitHours
                /\ pc' = "fill"
                /\ submitPc' = "optimizing"
                /\ UNCHANGED <<distanceMatrix, timeMatrix, route, unvisited,
                               improved, bestScore, i, j, bestRoute, result,
                               dashboard, alerts, request>>
    /\ UNCHANGED <<mapCurrent, pending, timers, searchTimeoutRef>>

\* optimizeRoute has returned: getRouteDirections(optimizedRoute.coordinates)
\* sends the request and the handler waits for the answer.
SubmitRequest ==
    /\ submitPc = "optimizing"
    /\ pc = "done"
    /\ request' = result.coordinates
    /\ submitPc' = "await"
    /\ distanceMatrix' = << >>
    /\ timeMatrix' = << >>
    /\ route' = << >>
    /\ unvisited' = << >>
    /\ improved' = FALSE
    /\ bestScore' = 0
    /\ i' = 0
    /\ j' = 0
    /\ bestRoute' = << >>
    /\ UNCHANGED <<startLocation, stops, endLocation, hour, pc, result,
                   dashboard, mapCurrent, alerts, pending, timers,
                   searchTimeoutRef>>

\* optimizeRoute has thrown: catch and finally.
SubmitCatch ==
    /\ submitPc = "optimizing"
    /\ pc = "threw"
    /\ alerts' = Append(alerts, "Error optimizing route. Please try again.")
    /\ SubmitFinally
    /\ dashboard' = [dashboard EXCEPT !.isLoading = FALSE]
    /\ UNCHANGED <<hour, mapCurrent, pending, timers, searchTimeoutRef>>

\* The provider answers: with a route the summary is stored (stops is
\* validStops, the array the optimizer was called with).
SubmitResponse ==
    /\ submitPc = "await"
    /\ \E routeDirections \in Responses :
        IF "routes" \in DOMAIN routeDirections /\ routeDirections.routes # << >>
        THEN LET routeData == routeDirections.routes[1]
                 order == result.order
             IN  dashboard' =
                   [dashboard EXCEPT
                      !.isLoading = FALSE,
                      !.routeSummary =
                         [distance |-> MetersToMiles(routeData.distance),
                          duration |-> routeData.duration,
                          stops |->
                             <<[address |-> startLocation.address, order |-> 0]>>
                             \o [k \in 1 .. Len(order) - 2 |->
                                   [address |-> stops[order[k + 1]].address,
                                    order |-> k]]
                             \o <<[address |-> startLocation.address,
                                   order |-> Len(order) - 1]>>]]
        ELSE dashboard' = [dashboard EXCEPT !.isLoading = FALSE]
    /\ SubmitFinally
    /\ UNCHANGED <<hour, mapCurrent, alerts, pending, timers,
                   searchTimeoutRef>>

\* The request fails (fetch rejects or the body is not JSON): catch and
\* finally.
SubmitRejected ==
    /\ submitPc = "await"
    /\ alerts' = Append(alerts, "Error optimizing route. Please try again.")
    /\ SubmitFinally
    /\ dashboard' = [dashboard EXCEPT !.isLoading = FALSE]
    /\ UNCHANGED <<hour, mapCurrent, pending, timers, searchTimeoutRef>>

SubmitNext ==
    \/ SubmitEnter
    \/ SubmitTry
    \/ FillMatrices
    \/ NearestNeighborStep
    \/ NearestNeighborReturn
    \/ Improve2OptEnter
    \/ WhileTest
    \/ TryPair
    \/ Return
    \/ SubmitRequest
    \/ SubmitCatch
    \/ SubmitResponse
    \/ SubmitRejected

SubmitSpec == SubmitInit /\ [][SubmitNext]_vars

\* A handler that was entered runs on, and the directions request settles;
\* submitting is up to the user.
SubmitRuns ==
    \/ SubmitTry
    \/ Next
    \/ SubmitRequest
    \/ SubmitCatch
    \/ SubmitResponse
    \/ SubmitRejected

FairSubmitSpec == SubmitSpec /\ WF_vars(SubmitRuns)

---------------------------------------------------------------------------
(* Properties *)

IdentityOrder == [k \in 1 .. n |-> k - 1]

\* improve2Opt is about to return `route`; bestRoute still is the tour it
\* was called with.
AtReturnOf2Opt == pc = "while" /\ ~improved

\* The interior position pairs of a tour of n waypoints
InteriorPairs == {p \in (1 .. n - 2) \X (1 .. n - 2) : p[1] < p[2]}

AllFinite == \A k \in 0 .. n - 1 : Point(k).lat # NaN /\ Point(k).lng # NaN

\* C1: the returned order has length k + 2, starts with 0, ends with n - 1
\* and holds every index 0 .. n-1 exactly once.
C1_Permutation ==
    pc = "done" =>
        /\ Len(result.order) = Len(stops) + 2
        /\ result.order[1] = 0
        /\ result.order[Len(result.order)] = Len(stops) + 1
        /\ \A x \in 0 .. Len(stops) + 1 :
              Cardinality({k \in 1 .. Len(result.order) : result.order[k] = x}) = 1

C1_Witness ==
    /\ pc = "done"
    /\ Len(stops) = 3
    /\ result.order # IdentityOrder

\* C2 as stated: the blended score of the tour improve2Opt returns is <= the
\* blended score of the nearest-neighbour tour it was given, for every input.
C2_ScoreMonotoneAllInputs ==
    AtReturnOf2Opt =>
        FLe(calculateRouteScore(route), calculateRouteScore(bestRoute))

\* C2 amended: when the nearest-neighbour tour has a numeric score, the tour
\* improve2Opt returns scores <= it; when its score is NaN, improve2Opt
\* returns the tour it was given, whose score is NaN.
C2_ScoreMonotone ==
    AtReturnOf2Opt =>
        IF calculateRouteScore(bestRoute) = NaN
        THEN route = bestRoute
        ELSE FLe(calculateRouteScore(route), calculateRouteScore(bestRoute))

C2_Witness ==
    /\ AtReturnOf2Opt
    /\ FLt(calculateRouteScore(route), calculateRouteScore(bestRoute))

\* C3: improve2Opt terminates: once entered, its while loop is eventually
\* left.
C3_Terminates == (pc = "improve") ~> (pc = "final")

C3_Witness ==
    /\ pc = "final"
    /\ Len(stops) = 3
    /\ bestRoute # IdentityOrder

\* C4: the tour improve2Opt returns is 2-opt locally optimal: reversing
\* positions a..b, 1 <= a < b <= n-2, never gives a strictly lower score.
C4_LocallyOptimal ==
    pc = "final" =>
        \A p \in InteriorPairs :
            ~FLt(calculateRouteScore(twoOptSwap(bestRoute, p[1], p[2])),
                 calculateRouteScore(bestRoute))

C4_Witness ==
    /\ pc = "final"
    /\ Len(stops) = 3
    /\ AllFinite
    /\ bestRoute # IdentityOrder

\* C5: with no stop or one stop the call does not fail and returns the
\* identity order, [0, 1] or [0, 1, 2].
C5_Degenerate ==
    Len(stops) <= 1 =>
        /\ pc # "threw"
        /\ pc = "done" => result.order = IdentityOrder

\* C6: every index findNearestNeighborRoute appends is an unvisited index
\* of minimal blended score from the index placed before it, it leaves the
\* unvisited set, and n - 1 is appended only when the set is empty.
C6_NearestChosen ==
    /\ pc = "nn" =>
        /\ \A p \in 1 .. Len(route) - 1 :
              LET remaining == (1 .. n - 2) \ {At(route, q) : q \in 1 .. p - 1}
              IN  /\ At(route, p) \in remaining
                  /\ \A u \in remaining :
                        ~FLt(combinedScore(At(route, p - 1), u),
                             combinedScore(At(route, p - 1), At(route, p)))
        /\ {unvisited[k] : k \in 1 .. Len(unvisited)}
             = (1 .. n - 2) \ {At(route, q) : q \in 1 .. Len(route) - 1}
    /\ pc = "improve" => unvisited = << >> /\ At(route, Len(route) - 1) = n - 1

\* C7: with exactly two stops the returned order is the one of [0,1,2,3] and
\* [0,2,1,3] with the lower total blended score.
C7_TwoStops ==
    (pc = "done" /\ Len(stops) = 2) =>
        /\ result.order \in {<<0, 1, 2, 3>>, <<0, 2, 1, 3>>}
        /\ \A other \in {<<0, 1, 2, 3>>, <<0, 2, 1, 3>>} :
              ~FLt(calculateRouteScore(other), calculateRouteScore(result.order))

C7_Witness ==
    /\ pc = "done"
    /\ Len(stops) = 2
    /\ result.order = <<0, 2, 1, 3>>
    /\ FLt(calculateRouteScore(<<0, 2, 1, 3>>), calculateRouteScore(<<0, 1, 2, 3>>))

\* C8: with two stops and no end location the first stop of the returned
\* order is the stop with the lower blended score from the start, and
\* improve2Opt returns the nearest-neighbour tour unchanged.
C8_RoundTripTwoStops ==
    (AtReturnOf2Opt /\ Len(stops) = 2 /\ endLocation = << >>) =>
        /\ route = bestRoute
        /\ \A u \in {1, 2} :
              ~FLt(combinedScore(0, u), combinedScore(0, At(route, 1)))

\* C9: without an end location the last returned coordinate pair is the
\* first one, the start location's [lng, lat].
C9_RoundTrip ==
    (pc = "done" /\ endLocation = << >>) =>
        /\ result.coordinates[Len(result.coordinates)] = result.coordinates[1]
        /\ result.coordinates[1] = <<startLocation.lng, startLocation.lat>>

C9_Witness ==
    /\ pc = "done"
    /\ endLocation = << >>
    /\ Len(stops) = 3
    /\ stops[3] # startLocation

\* The factor the claim gives each hour 0 .. 23, in tenths
ClaimedFactor(h) ==
    <<8, 8, 8, 8, 8, 8, 10, 15, 15, 15, 15, 10,
      10, 10, 10, 10, 15, 15, 15, 15, 10, 10, 8, 8>>[h + 1]

\* C10: the traffic multiplier is 1.5 for hours 7..10 and 16..19, 0.8 for
\* 22, 23, 0..5 and 1.0 for any other hour: every time cell is the distance
\* at 30 mph times the factor of the hour read for it (the hour of the call,
\* or the next one from the cell on where the clock passed the full hour).
C10_TrafficFactor ==
    pc # "fill" =>
        \E rollover \in 0 .. n * n :
            \A a \in 0 .. n - 1 : \A b \in (0 .. n - 1) \ {a} :
                timeMatrix[a][b]
                  = 2 * distanceMatrix[a][b] * ClaimedFactor(HourAt(a * n + b, rollover))

C10_Witness ==
    /\ pc = "done"
    /\ hour = 22
    /\ timeMatrix[0][1] = 4146 * 2 * 8

\* The time cell the code computes from a distance cell with the factor f,
\* in tenths: distance / 30 * 60 * f
TimeAtFactor(distance, f) == IF distance = NaN THEN NaN ELSE 2 * distance * f

\* C11: one traffic multiplier is used for every off-diagonal time cell of a
\* call, also when the hour advances during the fill, so the time matrix is
\* symmetric.
C11_OneMultiplier ==
    pc # "fill" =>
        /\ \E f \in {8, 10, 15} :
              \A a \in 0 .. n - 1 : \A b \in (0 .. n - 1) \ {a} :
                  timeMatrix[a][b] = TimeAtFactor(distanceMatrix[a][b], f)
        /\ \A a \in 0 .. n - 1 : \A b \in 0 .. n - 1 :
              timeMatrix[a][b] = timeMatrix[b][a]

C13_NonFiniteCompletes ==
    ~AllFinite =>
        /\ pc # "threw"
        /\ pc = "done" =>
              /\ Len(result.order) = n
              /\ \A x \in 0 .. n - 1 : \E k \in 1 .. n : result.order[k] = x

\* Every order that starts at 0, ends at n - 1 and visits each stop once
Tours ==
    {[k \in 1 .. n |-> IF k = 1 THEN 0 ELSE IF k = n THEN n - 1 ELSE f[k]] :
        f \in {g \in [2 .. n - 1 -> 1 .. n - 2] :
                  \A a, b \in 2 .. n - 1 : a # b => g[a] # g[b]}}

\* C14 as stated: the route returned is optimized for shortest total
\* distance: no order of the stops has a smaller sum of distances.
C14_ShortestDistance ==
    pc = "done" =>
        \A t \in Tours : ~FLt(finalDistance(t), result.distance)

\* C16: calculateDistance(A, B) = calculateDistance(B, A) for all locations,
\* so distanceMatrix[i][j] = distanceMatrix[j][i] for all i, j.
C16_DistanceSymmetric ==
    pc # "fill" =>
        \A a \in 0 .. n - 1 : \A b \in 0 .. n - 1 :
            /\ distanceMatrix[a][b] = distanceMatrix[b][a]
            /\ calculateDistance(Point(a), Point(b))
                 = calculateDistance(Point(b), Point(a))

C16_Witness ==
    /\ pc = "done"
    /\ AllFinite
    /\ Point(0).lat # Point(1).lat
    /\ Point(0).lng # Point(1).lng
    /\ distanceMatrix[0][1] > 0
    /\ distanceMatrix[1][0] > 0

\* C17: a call to optimizeRoute has no side effect apart from reading the
\* clock: no step of the call changes the start location, the stops array
\* (length, order, elements) or the end location passed in.
C17_ArgumentsUnchanged ==
    [][/\ startLocation' = startLocation
       /\ stops' = stops
       /\ endLocation' = endLocation]_vars

C17_Witness ==
    /\ pc = "done"
    /\ stops # << >>
    /\ endLocation # << >>
    /\ result.order # IdentityOrder

\* C19: when several unvisited points tie for the minimum score, the one
\* met first in the insertion order of the set, the lowest index, is
\* appended.
C19_TieLowestIndex ==
    pc = "nn" =>
        \A p \in 1 .. Len(route) - 1 :
            LET remaining == (1 .. n - 2) \ {At(route, q) : q \in 1 .. p - 1}
                chosen    == At(route, p)
            IN  chosen \in remaining =>
                    \A u \in remaining :
                        (/\ combinedScore(At(route, p - 1), u) # NaN
                         /\ combinedScore(At(route, p - 1), u)
                              = combinedScore(At(route, p - 1), chosen))
                            => chosen <= u

C19_Witness ==
    /\ pc = "nn"
    /\ Len(stops) = 3
    /\ Len(route) = 2
    /\ At(route, 1) = 1
    /\ combinedScore(0, 1) # NaN
    /\ combinedScore(0, 1) > 0
    /\ combinedScore(0, 3) = combinedScore(0, 1)
    /\ FLt(combinedScore(0, 1), combinedScore(0, 2))

\* C20: a full 2-opt pass evaluates the position pairs (i, j) with
\* 1 <= i < j <= n - 2, each once and in loop order, and no candidate moves
\* position 0 or position n - 1.
C20_PassPairs ==
    [][/\ (pc = "while" /\ pc' = "pair") => (i' = 1 /\ j' = 2)
       /\ (pc = "while" /\ improved /\ pc' = "while") => InteriorPairs = {}
       /\ pc = "pair" =>
             /\ <<i, j>> \in InteriorPairs
             /\ At(twoOptSwap(route, i, j), 0) = 0
             /\ At(twoOptSwap(route, i, j), n - 1) = n - 1
             /\ At(route', 0) = 0
             /\ At(route', n - 1) = n - 1
             /\ IF j < n - 2 THEN pc' = "pair" /\ i' = i /\ j' = j + 1
                ELSE IF i < n - 3 THEN pc' = "pair" /\ i' = i + 1 /\ j' = i + 2
                ELSE pc' = "while"]_vars

C20_Witness ==
    /\ pc = "pair"
    /\ n = 5
    /\ i = 2
    /\ j = 3
    /\ ~improved

\* A stop of the form that the filter must drop: lat 0, lng 0 or an address
\* of white space only
Dropped(stop) ==
    \/ stop.lat = 0
    \/ stop.lng = 0
    \/ \A k \in 1 .. Len(stop.address) : stop.address[k] = " "

\* C18: handleSubmit never calls optimizeRoute with an empty stop list: the
\* stops passed are the stops of the form without those with lat 0, lng 0
\* or a blank address, and when none is left the handler alerts and returns
\* without calling optimizeRoute or the directions provider.
C18_NoEmptyCall ==
    [][/\ (pc = "idle" /\ pc' = "fill") =>
             /\ stops' # << >>
             /\ \A k \in 1 .. Len(stops') : ~Dropped(stops'[k])
             /\ \A k \in 1 .. Len(dashboard.stops) :
                   ~Dropped(dashboard.stops[k]) =>
                       \E m \in 1 .. Len(stops') : stops'[m] = dashboard.stops[k]
       /\ (/\ submitPc = "try"
           /\ mapCurrent
           /\ \A k \in 1 .. Len(dashboard.stops) : Dropped(dashboard.stops[k])) =>
             /\ alerts' = Append(alerts, "Please add at least one valid stop")
             /\ submitPc' = "idle"
             /\ pc' = "idle"
             /\ request' = << >>]_vars

C18_Witness ==
    /\ submitPc = "idle"
    /\ pc = "idle"
    /\ request = << >>
    /\ mapCurrent
    /\ alerts = <<"Please add at least one valid stop">>
    /\ Len(dashboard.stops) = 3
    /\ \E k \in 1 .. 3 : dashboard.stops[k].lat # 0 /\ dashboard.stops[k].address # << >>

\* The tour r with positions a .. b in reversed order
ReverseSegment(r, a, b) ==
    [k \in 1 .. Len(r) |->
        IF a <= k - 1 /\ k - 1 <= b THEN r[(a + b) - (k - 1) + 1] ELSE r[k]]

\* The pair after p in the order of the two for loops over a tour of len
\* waypoints, <<0, 0>> after the last one
NextPair(p, len) ==
    IF p[2] < len - 2 THEN <<p[1], p[2] + 1>>
    ELSE IF p[1] < len - 3 THEN <<p[1] + 1, p[1] + 2>>
    ELSE <<0, 0>>

FirstPair(len) == IF len >= 4 THEN <<1, 2>> ELSE <<0, 0>>

\* Reference: one pass from the pair p on with the running best tour r of
\* score s; an improving candidate replaces r at once.
RECURSIVE ReferencePass(_, _, _, _)
ReferencePass(r, s, p, accepted) ==
    IF p = <<0, 0>> THEN <<r, s, accepted>>
    ELSE LET candidate == ReverseSegment(r, p[1], p[2])
             score == calculateRouteScore(candidate)
         IN  IF FLt(score, s)
             THEN ReferencePass(candidate, score, NextPair(p, Len(r)), TRUE)
             ELSE ReferencePass(r, s, NextPair(p, Len(r)), accepted)

\* Reference: passes until one accepts nothing
RECURSIVE ReferenceImprove(_, _)
ReferenceImprove(r, s) ==
    LET pass == ReferencePass(r, s, FirstPair(Len(r)), FALSE)
    IN  IF pass[3] THEN ReferenceImprove(pass[1], pass[2]) ELSE pass[1]

\* Best-of-pass 2-opt: every pair is reversed on the tour the pass started
\* with, and the best improving candidate (the first in loop order among
\* equals) is taken.
RECURSIVE BestOfPassImprove(_, _)
BestOfPassImprove(r, s) ==
    LET pairs == {p \in (1 .. Len(r) - 2) \X (1 .. Len(r) - 2) : p[1] < p[2]}
        scoreOf(p) == calculateRouteScore(ReverseSegment(r, p[1], p[2]))
        improving == {p \in pairs : FLt(scoreOf(p), s)}
    IN  IF improving = {} THEN r
        ELSE LET best == CHOOSE p \in improving :
                            \A q \in improving :
                                \/ FLt(scoreOf(p), scoreOf(q))
                                \/ /\ scoreOf(p) = scoreOf(q)
                                   /\ \/ p[1] < q[1]
                                      \/ p[1] = q[1] /\ p[2] <= q[2]
             IN  BestOfPassImprove(ReverseSegment(r, best[1], best[2]), scoreOf(best))

\* C21: within a pass an improving candidate is accepted at once and the
\* later pairs of the pass are reversed on and compared with the accepted
\* tour: the best score always is the score of the running tour, and
\* improve2Opt returns what the accept-in-place reference returns.
C21_AcceptInPlace ==
    /\ pc \in {"pair", "while"} => bestScore = calculateRouteScore(route)
    /\ AtReturnOf2Opt =>
          route = ReferenceImprove(bestRoute, calculateRouteScore(bestRoute))

\* An accept-in-place result that best-of-pass 2-opt does not give
C21_Witness ==
    /\ AtReturnOf2Opt
    /\ hour = 12
    /\ route # bestRoute
    /\ route # BestOfPassImprove(bestRoute, calculateRouteScore(bestRoute))

\* C22: a candidate is accepted only with a score strictly lower than the
\* best score, so the best score decreases with every accepted swap and is
\* never below zero; a candidate of equal score is not accepted.
C22_StrictDecrease ==
    [][pc = "pair" =>
         /\ (route' # route \/ bestScore' # bestScore) =>
               /\ FLt(bestScore', bestScore)
               /\ FLe(0, bestScore')
               /\ bestScore' = calculateRouteScore(route')
         /\ calculateRouteScore(twoOptSwap(route, i, j)) = bestScore =>
               /\ route' = route
               /\ bestScore' = bestScore
               /\ improved' = improved]_vars

C22_Witness ==
    /\ pc = "pair"
    /\ bestScore # NaN
    /\ FLt(bestScore, calculateRouteScore(bestRoute))
    /\ route # twoOptSwap(route, i, j)
    /\ calculateRouteScore(twoOptSwap(route, i, j)) = bestScore

\* A tour of the n waypoints: 0 first, n - 1 last, each of 1 .. n-2 once
IsTour(r) ==
    /\ Len(r) = n
    /\ At(r, 0) = 0
    /\ At(r, n - 1) = n - 1
    /\ \A x \in 1 .. n - 2 : Cardinality({k \in 1 .. n - 2 : At(r, k) = x}) = 1

\* C23: twoOptSwap(route, i, j) holds the elements of positions i .. j in
\* reversed order and leaves every other position as it is, the input
\* array is not modified (a rejected candidate leaves route as it was), and
\* every candidate and every accepted tour is a tour.
C23_SwapReverses ==
    [][pc = "pair" =>
         /\ twoOptSwap(route, i, j) = ReverseSegment(route, i, j)
         /\ IsTour(route)
         /\ IsTour(twoOptSwap(route, i, j))
         /\ route' \in {route, ReverseSegment(route, i, j)}
         /\ ~FLt(calculateRouteScore(ReverseSegment(route, i, j)), bestScore) =>
               route' = route
         /\ IsTour(route')]_vars

C23_Witness ==
    /\ pc = "pair"
    /\ i = 1
    /\ j = 3
    /\ At(route, 1) # 1
    /\ FLt(calculateRouteScore(twoOptSwap(route, 1, 3)), bestScore)

\* C24: both matrices have 0 on the diagonal, a distance cell off the
\* diagonal is the estimated distance of its two waypoints, and the time
\* cell is that distance at 30 mph in minutes times a traffic multiplier.
C24_Matrices ==
    pc \notin {"idle", "fill"} =>
        /\ DOMAIN distanceMatrix = 0 .. n - 1
        /\ DOMAIN timeMatrix = 0 .. n - 1
        /\ \A a \in 0 .. n - 1 :
              /\ DOMAIN distanceMatrix[a] = 0 .. n - 1
              /\ DOMAIN timeMatrix[a] = 0 .. n - 1
              /\ distanceMatrix[a][a] = 0
              /\ timeMatrix[a][a] = 0
              /\ \A b \in (0 .. n - 1) \ {a} :
                    /\ distanceMatrix[a][b] = calculateDistance(Point(a), Point(b))
                    /\ \E f \in {8, 10, 15} :
                          timeMatrix[a][b] = TimeAtFactor(distanceMatrix[a][b], f)

C24_Witness ==
    /\ pc = "nn"
    /\ n = 5
    /\ AllFinite
    /\ distanceMatrix[1][3] > 0
    /\ hour = 10
    /\ timeMatrix[1][3] = 30 * distanceMatrix[1][3]
    /\ timeMatrix[3][1] = 30 * distanceMatrix[3][1]

\* C25: coordinates has the length of order, coordinates[k] is the
\* [lng, lat] of waypoint order[k], and duration is 0.
C25_Coordinates ==
    pc = "done" =>
        /\ Len(result.coordinates) = Len(result.order)
        /\ \A k \in 1 .. Len(result.order) :
              result.coordinates[k]
                = <<allPoints[result.order[k] + 1].lng,
                    allPoints[result.order[k] + 1].lat>>
        /\ result.duration = 0

C25_Witness ==
    /\ pc = "done"
    /\ Len(stops) = 3
    /\ result.order = <<0, 3, 2, 1, 4>>
    /\ result.coordinates[2] = <<0, 1>>
    /\ result.coordinates[4] = <<1, 0>>

\* C26: the summary stored after a successful directions response lists the
\* start address with order 0, the stops in the optimized order with orders
\* 1 .. k, and with order k + 1 the address of the end location when one
\* was supplied, the start address otherwise.
C26_Summary ==
    [][(submitPc = "await" /\ dashboard'.routeSummary # dashboard.routeSummary) =>
         LET summary == dashboard'.routeSummary.stops
             k == Len(stops)
         IN  /\ Len(summary) = k + 2
             /\ summary[1] = [address |-> startLocation.address, order |-> 0]
             /\ \A m \in 1 .. k :
                   summary[m + 1]
                     = [address |-> stops[result.order[m + 1]].address, order |-> m]
             /\ summary[k + 2]
                   = [address |-> IF endLocation # << >>
                                  THEN endLocation[1].address
                                  ELSE startLocation.address,
                      order |-> k + 1]]_vars

\* C30: handleSubmit sets isLoading on entry, it stays set while the handler
\* runs, and when the directions request settles the handler finishes with
\* isLoading false again, on every path.
C30_LoadingReset ==
    /\ [](submitPc # "idle" <=> dashboard.isLoading)
    /\ (submitPc = "try") ~> (submitPc = "idle" /\ ~dashboard.isLoading)

C30_Witness ==
    /\ submitPc = "idle"
    /\ ~dashboard.isLoading
    /\ mapCurrent
    /\ dashboard.routeSummary # << >>
    /\ alerts = <<"Error optimizing route. Please try again.">>

---------------------------------------------------------------------------
(* The form: stops are added, removed and filled in *)

\* The most async handlers that wait at an await at one time
MaxPending == 2

optimizerVars == <<startLocation, stops, endLocation, hour, pc,
                   distanceMatrix, timeMatrix, route, unvisited, improved,
                   bestScore, i, j, bestRoute, result>>

\* Where the map is clicked, the centre of a suggestion, the position of
\* the device
Positions == {Loc(0, 1)}

\* "Unknown location"
UnknownLocation ==
    <<"U", "n", "k", "n", "o", "w", "n", " ",
      "l", "o", "c", "a", "t", "i", "o", "n">>

\* reverseGeocode(lat, lng): the place name the provider answers with, or
\* "Unknown location" when the request fails
reverseGeocode(lat, lng) == {<<"c">>, UnknownLocation}

\* An element of an array that was never assigned (a hole), and the
\* undefined a spread makes of it
Hole == Stop(<<"empty">>, NaN, NaN)

Undefined == Stop(<<"undefined">>, NaN, NaN)

\* [...array]
Spread(array) ==
    [k \in 1 .. Len(array) |-> IF array[k] = Hole THEN Undefined ELSE array[k]]

\* array[index] = value, on an array of stops: the array grows when index
\* is not one of its positions
ArraySet(array, index, value) ==
    [k \in 1 .. (IF index + 1 > Len(array) THEN index + 1 ELSE Len(array)) |->
        IF k = index + 1 THEN value
        ELSE IF k <= Len(array) THEN array[k]
        ELSE Hole]

\* array.map((x, i) => (i === index ? value : x))
MapAt(array, index, value) ==
    [k \in 1 .. Len(array) |-> IF k = index + 1 THEN value ELSE array[k]]

\* array.filter((_, i) => i !== index): holes are skipped
RECURSIVE FilterIndex(_, _, _)
FilterIndex(array, index, hole) ==
    IF array = << >> THEN << >>
    ELSE IF index = 0 \/ Head(array) = hole
         THEN FilterIndex(Tail(array), index - 1, hole)
    ELSE <<Head(array)>> \o FilterIndex(Tail(array), index - 1, hole)

\* A handler that waits at an await, with what its closure holds
AsyncOp(kind, index, captured, position, value) ==
    [kind |-> kind, index |-> index, stops |-> captured,
     position |-> position, value |-> value]

\* updateMarkers reads stop.lat of every element: an undefined element
\* throws in the effect and the page is gone
Crashed == \E k \in 1 .. Len(dashboard.stops) : dashboard.stops[k] = Undefined

\* The rows of the form: stops.map skips the holes
Rows ==
    {index \in 0 .. Len(dashboard.stops) - 1 : dashboard.stops[index + 1] # Hole}

\* isGettingLocation: set on entry of handleUseCurrentLocation, reset in
\* its finally block
isGettingLocation ==
    \E op \in BagToSet(pending) : op.kind = "location"

\* A new dashboard, mounted: state as constructed, the map created
FormInit ==
    /\ OptimizerIdle
    /\ hour \in SubmitHours
    /\ dashboard = [stops |-> <<EmptyStop>>,
                    startLocation |-> InitialStartLocation,
                    endLocation |-> << >>,
                    isLoading |-> FALSE,
                    routeSummary |-> << >>,
                    inputValues |-> [stops |-> << << >> >>],
                    suggestions |-> << >>,
                    activeSuggestionIndex |-> -1,
                    activeSuggestionInput |-> << >>]
    /\ mapCurrent = TRUE
    /\ submitPc = "idle"
    /\ alerts = << >>
    /\ request = << >>
    /\ NoAsync

handleAddStop ==
    /\ ~Crashed
    /\ Len(dashboard.stops) < MaxStops
    /\ Len(dashboard.inputValues.stops) < MaxStops
    /\ dashboard' = [dashboard EXCEPT
                       !.stops = Append(@, EmptyStop),
                       !.inputValues.stops = Append(@, << >>)]
    /\ UNCHANGED <<optimizerVars, mapCurrent, submitPc, alerts, request,
                   asyncVars>>

handleRemoveStop(index) ==
    /\ ~Crashed
    /\ index \in Rows
    /\ Len(dashboard.stops) > 1
    /\ dashboard' = [dashboard EXCEPT
                       !.stops = FilterIndex(@, index, Hole),
                       !.inputValues.stops = FilterIndex(@, index, Hole)]
    /\ UNCHANGED <<optimizerVars, mapCurrent, submitPc, alerts, request,
                   asyncVars>>

\* The map is clicked: the handler waits for reverseGeocode.
MapClick ==
    /\ ~Crashed
    /\ mapCurrent
    /\ BagCardinality(pending) < MaxPending
    /\ \E lngLat \in Positions :
          pending' = pending (+) SetToBag({AsyncOp("click", -1, << >>, lngLat, << >>)})
    /\ UNCHANGED <<optimizerVars, dashboard, mapCurrent, submitPc, alerts,
                   request, timers, searchTimeoutRef>>

\* reverseGeocode has answered the click handler. The handler was made
\* when the map was created: its startLocation is the initial one.
MapClickResolved ==
    /\ ~Crashed
    /\ \E op \in BagToSet(pending) :
          /\ op.kind = "click"
          /\ pending' = pending (-) SetToBag({op})
          /\ \E address \in reverseGeocode(op.position.lat, op.position.lng) :
               IF InitialStartLocation.lat = 0 \/ InitialStartLocation.lng = 0
               THEN dashboard' = [dashboard EXCEPT
                      !.startLocation =
                          Stop(address, op.position.lat, op.position.lng)]
               ELSE /\ Len(dashboard.stops) < MaxStops
                    /\ Len(dashboard.inputValues.stops) < MaxStops
                    /\ dashboard' = [dashboard EXCEPT
                         !.stops = Append(@,
                            Stop(address, op.position.lat, op.position.lng)),
                         !.inputValues.stops = Append(@, address)]
    /\ UNCHANGED <<optimizerVars, mapCurrent, submitPc, alerts, request,
                   timers, searchTimeoutRef>>

\* A suggestion
Suggestion(place_name, center) == [place_name |-> place_name, center |-> center]

\* handleSuggestionClick(suggestion, false, stopIndex): the handler waits
\* for reverseGeocode.
handleSuggestionClick(suggestion, stopIndex) ==
    /\ BagCardinality(pending) < MaxPending
    /\ pending' = pending (+)
          SetToBag({AsyncOp("suggestion", stopIndex, << >>, suggestion.center, << >>)})
    /\ UNCHANGED <<optimizerVars, dashboard, mapCurrent, submitPc, alerts,
                   request, timers, searchTimeoutRef>>

\* A suggestion of the dropdown of a row is clicked.
SuggestionClicked ==
    /\ ~Crashed
    /\ \E stopIndex \in Rows, center \in Positions :
          handleSuggestionClick(Suggestion(<<"c">>, center), stopIndex)

\* reverseGeocode has answered handleSuggestionClick: the input and the
\* stop at the index taken before the await are set.
SuggestionResolved ==
    /\ ~Crashed
    /\ \E op \in BagToSet(pending) :
          /\ op.kind = "suggestion"
          /\ pending' = pending (-) SetToBag({op})
          /\ \E accurateAddress \in reverseGeocode(op.position.lat, op.position.lng) :
               dashboard' = [dashboard EXCEPT
                  !.inputValues.stops = MapAt(@, op.index, accurateAddress),
                  !.stops = ArraySet(Spread(@), op.index,
                               Stop(accurateAddress, op.position.lat,
                                    op.position.lng)),
                  !.suggestions = << >>,
                  !.activeSuggestionInput = << >>]
    /\ UNCHANGED <<optimizerVars, mapCurrent, submitPc, alerts, request,
                   timers, searchTimeoutRef>>

\* handleUseCurrentLocation("stop", index): the button is disabled while
\* isGettingLocation; the handler waits for the position and its address
\* with the stops of the render it was made in.
handleUseCurrentLocation(index) ==
    /\ ~Crashed
    /\ index \in Rows
    /\ ~isGettingLocation
    /\ BagCardinality(pending) < MaxPending
    /\ pending' = pending (+)
          SetToBag({AsyncOp("location", index, dashboard.stops, Loc(0, 0), << >>)})
    /\ UNCHANGED <<optimizerVars, dashboard, mapCurrent, submitPc, alerts,
                   request, timers, searchTimeoutRef>>

\* The position and its address have arrived.
CurrentLocationResolved ==
    /\ ~Crashed
    /\ \E op \in BagToSet(pending) :
          /\ op.kind = "location"
          /\ pending' = pending (-) SetToBag({op})
          /\ \E coords \in Positions :
             \E address \in reverseGeocode(coords.lat, coords.lng) :
               dashboard' = [dashboard EXCEPT
                  !.stops = ArraySet(Spread(op.stops), op.index,
                               Stop(address, coords.lat, coords.lng))]
    /\ UNCHANGED <<optimizerVars, mapCurrent, submitPc, alerts, request,
                   timers, searchTimeoutRef>>

\* getCurrentLocation rejects: catch and finally.
CurrentLocationRejected ==
    /\ ~Crashed
    /\ Len(alerts) < MaxAlerts
    /\ \E op \in BagToSet(pending) :
          /\ op.kind = "location"
          /\ pending' = pending (-) SetToBag({op})
    /\ alerts' = Append(alerts, "Could not get your current location. Please make sure you've granted location access.")
    /\ UNCHANGED <<optimizerVars, dashboard, mapCurrent, submitPc, request,
                   timers, searchTimeoutRef>>

FormNext ==
    \/ handleAddStop
    \/ \E index \in 0 .. MaxStops - 1 : handleRemoveStop(index)
    \/ MapClick
    \/ MapClickResolved
    \/ SuggestionClicked
    \/ SuggestionResolved
    \/ \E index \in 0 .. MaxStops - 1 : handleUseCurrentLocation(index)
    \/ CurrentLocationResolved
    \/ CurrentLocationRejected

FormSpec == FormInit /\ [][FormNext]_vars

\* C27: the stops list and inputValues.stops have the same length, after
\* any interleaving of add-stop, remove-stop, map click, suggestion
\* selection and the completion of handleUseCurrentLocation("stop", i) or
\* handleSuggestionClick.
C27_SameLength ==
    Len(dashboard.stops) = Len(dashboard.inputValues.stops)

---------------------------------------------------------------------------
(* The suggestions: typing, the debounce timer, the search, the keys *)

\* The most suggestions a search answers with
MaxSuggestions == 2

\* What is typed into an input
TypedValues == {<<"a", "b">>, <<"a", "b", "c">>, <<"a", "b", "c", "d">>}

Digit == <<"1", "2", "3", "4", "5", "6", "7", "8", "9">>

\* searchAddressWithSuggestions(query): the features the provider answers
\* with, [] when the request fails
searchAddressWithSuggestions(query) ==
    {[k \in 1 .. count |-> Suggestion(Append(query, Digit[k]), center)] :
        count \in 0 .. MaxSuggestions, center \in Positions}

\* setTimeout: a timer with an id no pending timer has and the ref does
\* not hold
FreshTimer ==
    CHOOSE id \in 1 .. Cardinality(timers) + 2 :
        /\ \A timer \in timers : timer.id # id
        /\ searchTimeoutRef # <<id>>

\* clearTimeout(searchTimeoutRef.current)
ClearTimeout ==
    IF searchTimeoutRef # << >>
    THEN {timer \in timers : timer.id # searchTimeoutRef[1]}
    ELSE timers

\* handleStopChange(index, value): onChange of the input of a row, with a
\* value that is not the one the input shows
handleStopChange(index, value) ==
    /\ ~Crashed
    /\ index \in Rows
    /\ index < Len(dashboard.inputValues.stops)
          => value # dashboard.inputValues.stops[index + 1]
    /\ IF Len(value) >= 3
       THEN /\ timers' = ClearTimeout \cup {[id |-> FreshTimer, value |-> value]}
            /\ searchTimeoutRef' = <<FreshTimer>>
            /\ dashboard' = [dashboard EXCEPT
                  !.inputValues.stops = MapAt(@, index, value),
                  !.activeSuggestionInput = <<index>>,
                  !.activeSuggestionIndex = -1]
       ELSE /\ timers' = ClearTimeout
            /\ searchTimeoutRef' = searchTimeoutRef
            /\ dashboard' = [dashboard EXCEPT
                  !.inputValues.stops = MapAt(@, index, value),
                  !.activeSuggestionInput = <<index>>,
                  !.activeSuggestionIndex = -1,
                  !.suggestions = << >>]
    /\ UNCHANGED <<optimizerVars, mapCurrent, submitPc, alerts, request,
                   pending>>

\* 300 ms have passed: the callback of a timer starts the search and waits
\* for it.
TimerFires ==
    /\ BagCardinality(pending) < MaxPending
    /\ \E timer \in timers :
          /\ timers' = timers \ {timer}
          /\ pending' = pending (+)
                SetToBag({AsyncOp("search", -1, << >>, Loc(0, 0), timer.value)})
    /\ UNCHANGED <<optimizerVars, dashboard, mapCurrent, submitPc, alerts,
                   request, searchTimeoutRef>>

\* The search has answered: setSuggestions(suggestions).
SearchResolved ==
    /\ ~Crashed
    /\ \E op \in BagToSet(pending) :
          /\ op.kind = "search"
          /\ pending' = pending (-) SetToBag({op})
          /\ \E suggestions \in searchAddressWithSuggestions(op.value) :
                dashboard' = [dashboard EXCEPT !.suggestions = suggestions]
    /\ UNCHANGED <<optimizerVars, mapCurrent, submitPc, alerts, request,
                   timers, searchTimeoutRef>>

Keys == {"ArrowDown", "ArrowUp", "Enter", "Escape"}

\* handleKeyDown(e, false, stopIndex), past the return for an empty list.
\* suggestions[activeSuggestionIndex] is undefined when the index is not a
\* position of the list: handleSuggestionClick then throws on
\* suggestion.center and nothing is set.
handleKeyDown(key, stopIndex) ==
    /\ ~Crashed
    /\ stopIndex \in Rows
    /\ Len(dashboard.suggestions) # 0
    /\ LET suggestions == dashboard.suggestions
           activeSuggestionIndex == dashboard.activeSuggestionIndex
       IN  IF key = "ArrowDown"
           THEN /\ dashboard' = [dashboard EXCEPT !.activeSuggestionIndex =
                      IF @ < Len(suggestions) - 1 THEN @ + 1 ELSE @]
                /\ UNCHANGED pending
           ELSE IF key = "ArrowUp"
           THEN /\ dashboard' = [dashboard EXCEPT !.activeSuggestionIndex =
                      IF @ > 0 THEN @ - 1 ELSE 0]
                /\ UNCHANGED pending
           ELSE IF key = "Enter" /\ activeSuggestionIndex >= 0
           THEN IF activeSuggestionIndex < Len(suggestions)
                THEN handleSuggestionClick(
                        suggestions[activeSuggestionIndex + 1], stopIndex)
                ELSE UNCHANGED <<dashboard, pending>>
           ELSE IF key = "Escape"
           THEN /\ dashboard' = [dashboard EXCEPT
                      !.suggestions = << >>,
                      !.activeSuggestionInput = << >>]
                /\ UNCHANGED pending
           ELSE UNCHANGED <<dashboard, pending>>
    /\ UNCHANGED <<optimizerVars, mapCurrent, submitPc, alerts, request,
                   timers, searchTimeoutRef>>

\* A suggestion of the dropdown shown under a row is clicked.
DropdownClicked ==
    /\ ~Crashed
    /\ \E stopIndex \in Rows :
          /\ dashboard.activeSuggestionInput = <<stopIndex>>
          /\ \E k \in 1 .. Len(dashboard.suggestions) :
                handleSuggestionClick(dashboard.suggestions[k], stopIndex)

\* A click outside the inputs closes the dropdown.
handleClickOutside ==
    /\ ~Crashed
    /\ dashboard' = [dashboard EXCEPT
          !.suggestions = << >>,
          !.activeSuggestionInput = << >>]
    /\ UNCHANGED <<optimizerVars, mapCurrent, submitPc, alerts, request,
                   asyncVars>>

SuggestNext ==
    \/ \E index \in 0 .. MaxStops - 1, value \in TypedValues :
          handleStopChange(index, value)
    \/ TimerFires
    \/ SearchResolved
    \/ \E key \in Keys, stopIndex \in 0 .. MaxStops - 1 :
          handleKeyDown(key, stopIndex)
    \/ DropdownClicked
    \/ SuggestionResolved
    \/ handleClickOutside

SuggestSpec == FormInit /\ [][SuggestNext]_vars

\* C28: whenever Enter is handled in handleKeyDown with
\* activeSuggestionIndex >= 0 (the list is not empty, or the handler has
\* returned before), the index is a position of the current suggestions
\* list.
C28_EnterIndexValid ==
    (Len(dashboard.suggestions) # 0 /\ dashboard.activeSuggestionIndex >= 0)
        => dashboard.activeSuggestionIndex < Len(dashboard.suggestions)

\* The value typed last into the input whose suggestions are shown
LatestValue ==
    dashboard.inputValues.stops[dashboard.activeSuggestionInput[1] + 1]

\* C29: at most one debounce timer is pending at a time, and when no timer
\* and no other search is under way (the suggestions for the value typed
\* last were set or cleared), the answer of a search that arrives is for
\* that value or leaves the list as it is.
C29_LatestValue ==
    /\ [](Cardinality(timers) <= 1)
    /\ [][\A op \in BagToSet(pending) :
            (/\ op.kind = "search"
             /\ pending' = pending (-) SetToBag({op})
             /\ timers = {}
             /\ \A other \in BagToSet(pending') : other.kind # "search"
             /\ dashboard.activeSuggestionInput # << >>)
                => \/ op.value = LatestValue
                   \/ dashboard'.suggestions = dashboard.suggestions]_vars

=============================================================================
